---- MODULE Spec2Model ----
(***************************************************************************)
(* Model of sheetcarrierdensityvsdepthplotter.py: the record parser        *)
(* (process_txt_file), the profile calculator (calculate_ncv_zcv), the     *)
(* sample-name extraction and the two batch drivers (run_cli_mode and the  *)
(* NcvZcvApp callbacks select_files / process_data / plot_results /        *)
(* save_to_excel).                                                         *)
(*                                                                         *)
(* Numbers.  A float is an exact rational extended with the IEEE special   *)
(* values nan, +inf and -inf: [k |-> "fin", n, d] is n/d in lowest terms,  *)
(* [k |-> "inf", n |-> +1 or -1] and [k |-> "nan"].  Rounding, overflow    *)
(* of finite values and the sign of zero are not modelled (every zero is   *)
(* +0.0, which is what x - x and the inputs used here produce).            *)
(*                                                                         *)
(* Units.  Capacitance is counted in nF and voltage in V, so dV/dC is in   *)
(* V/nF and the sentinel 1e10 V/F of nan_to_num is 10 V/nF.  Areas are in  *)
(* units of pi*(1e-6/2)^2 m^2 (the area of a 1 um capacitor), epsilon_0    *)
(* and q are the units of permittivity and charge, and depth and density   *)
(* are in the units that absorb the factors 1e9 and 1e-6.  All of these    *)
(* are positive rescalings: they change no sign, no zero and no            *)
(* finiteness of any value the program computes.                           *)
(***************************************************************************)
EXTENDS Integers, Sequences, FiniteSets, TLC

VARIABLES
    \* ---- batch drivers (run_cli_mode, NcvZcvApp) ----
    mode,          \* "cli" | "gui" | "off"
    argv,          \* the parameter texts: diameter, epsilon, interface
    picked,        \* the files on the command line / chosen in the dialog
    file_paths,    \* NcvZcvApp.file_paths
    pc,            \* position of the driver
    idx,           \* number of files the loop has consumed
    nread,         \* number of files opened and read so far
    parsed,        \* positions of the files process_txt_file returned a table for
    selected,      \* what select_files answered: "none" | "rejected" | "accepted"
    results,       \* frequency label -> (results_df, Ncv_f, Ncv_b)
    origin,        \* frequency label -> index of the file that wrote it
    sample_names,  \* the set sample_names
    sample_name,   \* the sample chosen for output (<<>> while none is chosen)
    outcome,       \* how the run ended
    folder,        \* the output folders created
    workbook,      \* the workbook file: [written, name, sheets]
    plot,          \* the plot file: [written, name]
    \* ---- process_txt_file on its own ----
    ptext, pout,
    \* ---- calculate_ncv_zcv on its own ----
    ctab, cpar, cout

vars == << mode, argv, picked, file_paths, pc, idx, nread, parsed, selected,
           results, origin, sample_names, sample_name, outcome, folder,
           workbook, plot, ptext, pout, ctab, cpar, cout >>

drivervars == << mode, argv, picked, file_paths, pc, idx, nread, parsed, selected,
                 results, origin, sample_names, sample_name, outcome, folder,
                 workbook, plot >>

-----------------------------------------------------------------------------
(* Floats *)

RECURSIVE GCD(_, _)
GCD(a, b) == IF b = 0 THEN a ELSE GCD(b, a % b)

Abs(n) == IF n < 0 THEN -n ELSE n

Fin(n, d) ==
    LET s == IF d < 0 THEN -1 ELSE 1
        g == GCD(Abs(n), Abs(d))
    IN  [k |-> "fin", n |-> (s * n) \div g, d |-> (s * d) \div g]

NaN == [k |-> "nan", n |-> 0, d |-> 1]

Inf(s) == [k |-> "inf", n |-> s, d |-> 1]

FromInt(i) == Fin(i, 1)

Sgn(x) == IF x.n > 0 THEN 1 ELSE IF x.n < 0 THEN -1 ELSE 0

IsNaN(x) == x.k = "nan"

IsFinite(x) == x.k = "fin"

IsZero(x) == x.k = "fin" /\ x.n = 0

FNeg(x) == IF x.k = "nan" THEN x ELSE [x EXCEPT !.n = -x.n]

FAbs(x) == IF x.k = "nan" THEN x ELSE [x EXCEPT !.n = Abs(x.n)]

FAdd(x, y) ==
    CASE x.k = "nan" \/ y.k = "nan" -> NaN
      [] x.k = "inf" /\ y.k = "inf" -> IF x.n = y.n THEN x ELSE NaN
      [] x.k = "inf"                -> x
      [] y.k = "inf"                -> y
      [] OTHER                      -> Fin(x.n * y.d + y.n * x.d, x.d * y.d)

FSub(x, y) == FAdd(x, FNeg(y))

FMul(x, y) ==
    CASE x.k = "nan" \/ y.k = "nan" -> NaN
      [] x.k = "inf" \/ y.k = "inf" ->
            IF IsZero(x) \/ IsZero(y) THEN NaN ELSE Inf(Sgn(x) * Sgn(y))
      [] OTHER                      -> Fin(x.n * y.n, x.d * y.d)

FDiv(x, y) ==
    CASE x.k = "nan" \/ y.k = "nan" -> NaN
      [] x.k = "inf" /\ y.k = "inf" -> NaN
      [] x.k = "inf"                -> Inf(IF Sgn(y) < 0 THEN -x.n ELSE x.n)
      [] y.k = "inf"                -> Fin(0, 1)
      [] IsZero(y)                  -> IF IsZero(x) THEN NaN ELSE Inf(Sgn(x))
      [] OTHER                      -> Fin(x.n * y.d, x.d * y.n)

-----------------------------------------------------------------------------
(* calculate_ncv_zcv *)

\* nan_to_num(x, nan=0.0, posinf=1e10, neginf=-1e10), in V/nF.
nan_value == 0
posinf == 10
neginf == -10

nan_to_num_sign_lost(x) ==
    CASE x.k = "nan" -> FromInt(nan_value)
      [] x.k = "inf" -> FromInt(posinf)
      [] OTHER       -> x

nan_to_num(x) ==
    CASE x.k = "nan"              -> FromInt(nan_value)
      [] x.k = "inf" /\ x.n > 0   -> FromInt(posinf)
      [] x.k = "inf" /\ x.n < 0   -> FromInt(neginf)
      [] OTHER                    -> x

\* np.gradient(f) with unit spacing and edge_order 1, for Len(f) >= 2.
np_gradient(f) ==
    LET n == Len(f)
    IN  [i \in 1..n |->
            IF i = 1 THEN FSub(f[2], f[1])
            ELSE IF i = n THEN FSub(f[n], f[n - 1])
            ELSE FDiv(FSub(f[i + 1], f[i - 1]), FromInt(2))]

\* np.trapezoid(y, x): sum of diff(x) * (y[1:] + y[:-1]) / 2.0
RECURSIVE trapezoid_from(_, _, _)
trapezoid_from(y, x, i) ==
    IF i >= Len(x) THEN FromInt(0)
    ELSE FAdd(FDiv(FMul(FSub(x[i + 1], x[i]), FAdd(y[i + 1], y[i])), FromInt(2)),
              trapezoid_from(y, x, i + 1))

trapezoid(y, x) == trapezoid_from(y, x, 1)

\* A cell of a data frame: a number, or the text pandas keeps in an object column.
Num(x) == [kind |-> "num", val |-> x]
Text == [kind |-> "text", val |-> NaN]

\* A data frame: its rows (three cells each) and, per column, whether pandas
\* read the column as object dtype (strings) instead of as numbers.
Frame(rows, obj) == [rows |-> rows, obj |-> obj]

Column(df, c) == [i \in 1..Len(df.rows) |-> df.rows[i][c].val]

Raised == [raised |-> TRUE, V |-> <<>>, dVdCf |-> <<>>, dVdCb |-> <<>>,
           Zf |-> <<>>, Zb |-> <<>>, Nf |-> <<>>, Nb |-> <<>>,
           If |-> NaN, Ib |-> NaN]

\* np.gradient raises ValueError on fewer than two elements, and the
\* subtraction of two strings of an object column raises TypeError.
calc_raises(df) ==
    \/ Len(df.rows) < 2
    \/ \E c \in 1..3 : df.obj[c]

NoCalc == [done |-> FALSE, p |-> Raised]

calculate_ncv_zcv(df, A, epsilon_r) ==
    IF calc_raises(df) THEN Raised
    ELSE
    LET n       == Len(df.rows)
        voltage == Column(df, 1)
        capf    == Column(df, 2)
        capb    == Column(df, 3)
        gV      == np_gradient(voltage)
        gCf     == np_gradient(capf)
        gCb     == np_gradient(capb)
        dVdCf   == [i \in 1..n |-> nan_to_num(FDiv(gV[i], gCf[i]))]
        dVdCb   == [i \in 1..n |-> nan_to_num(FDiv(gV[i], gCb[i]))]
        den     == FMul(epsilon_r, FMul(A, A))       \* epsilon_0 * epsilon_r * A**2 * q
        num     == FMul(epsilon_r, A)                \* epsilon_0 * epsilon_r * A
        cube(c) == FMul(FMul(c, c), c)
        Ncvf    == [i \in 1..n |-> FMul(FDiv(cube(capf[i]), den), dVdCf[i])]
        Ncvb    == [i \in 1..n |-> FMul(FDiv(cube(capb[i]), den), dVdCb[i])]
        Zcvf    == [i \in 1..n |-> FDiv(num, capf[i])]
        Zcvb    == [i \in 1..n |-> FDiv(num, capb[i])]
        Ncvf3   == [i \in 1..n |-> FAbs(Ncvf[i])]
        Ncvb3   == [i \in 1..n |-> FAbs(Ncvb[i])]
    IN  [raised |-> FALSE, V |-> voltage, dVdCf |-> dVdCf, dVdCb |-> dVdCb,
         Zf |-> Zcvf, Zb |-> Zcvb, Nf |-> Ncvf3, Nb |-> Ncvb3,
         If |-> trapezoid(Ncvf3, Zcvf), Ib |-> trapezoid(Ncvb3, Zcvb)]

\* A = np.pi * (diameter * 1e-6 / 2) ** 2
Area(diameter) == FMul(diameter, diameter)

-----------------------------------------------------------------------------
(* process_txt_file and extract_sample_name *)

\* A file name is the sequence of its pieces: a literal piece such as
\* "C(V)_0_", "_" or ".txt", or a maximal run of letters and digits cut into
\* alphanumeric pieces ("1" "kHz").  A frequency label and a sample name are
\* the pieces of the substring they stand for.
Alnum == {"A", "B", "1", "2", "kHz", "notes"}

Unknown == << "Unknown" >>

RECURSIVE find_kHz(_, _)
find_kHz(filename, p) ==
    IF p > Len(filename) THEN 0
    ELSE IF filename[p] = "kHz" THEN p
    ELSE find_kHz(filename, p + 1)

\* filename.split('kHz')[0] + 'kHz' if 'kHz' in filename else "Unknown"
frequency_of(filename) ==
    LET p == find_kHz(filename, 1)
    IN  IF p = 0 THEN Unknown ELSE SubSeq(filename, 1, p)

\* The end of the maximal alphanumeric run that starts at p (p - 1 if none).
RECURSIVE run_end(_, _)
run_end(filename, p) ==
    IF p <= Len(filename) /\ filename[p] \in Alnum
    THEN run_end(filename, p + 1) ELSE p - 1

\* re.search(r'C\(V\)_0_([A-Za-z0-9]+)_', filename) from position p on
RECURSIVE re_search(_, _)
re_search(filename, p) ==
    IF p > Len(filename) THEN Unknown
    ELSE LET e == run_end(filename, p + 1)
         IN  IF /\ filename[p] = "C(V)_0_"
                /\ e >= p + 1
                /\ e + 1 <= Len(filename)
                /\ filename[e + 1] = "_"
             THEN SubSeq(filename, p + 1, e)
             ELSE re_search(filename, p + 1)

extract_sample_name(filename) == re_search(filename, 1)

\* A whitespace-delimited token of a line: a numeral ("num"), a numeral
\* written with a decimal comma ("numcomma"), one of the markers pandas reads
\* as a missing value such as NaN or NA ("na"), or any other text ("text").
Tok(kind, val) == [kind |-> kind, val |-> val]

Missing == [kind |-> "nan", val |-> NaN]

\* data.replace(',', '.')
replace_commas(line) ==
    [j \in 1..Len(line) |->
        IF line[j].kind = "numcomma" THEN Tok("num", line[j].val) ELSE line[j]]

\* [line for line in lines if len(line.split()) >= 3]
enough_tokens(line) == Len(line) >= 3

\* pd.read_csv(..., sep=r'\s+', header=None): the first line sets the number
\* of columns; a later line with more fields is a ParserError, one with fewer
\* is padded with missing values.
read_csv_raises(lines) == \E i \in 2..Len(lines) : Len(lines[i]) > Len(lines[1])

read_cell(line, c) ==
    IF c > Len(line) THEN Missing
    ELSE IF line[c].kind = "num" THEN Num(line[c].val)
    ELSE IF line[c].kind = "na" THEN Missing
    ELSE Text

\* A column holding any text is read as object dtype.
object_column(lines, c) ==
    \E i \in 1..Len(lines) : read_cell(lines[i], c).kind = "text"

has_missing(row) == \E c \in 1..3 : row[c].kind = "nan"

\* df.dropna()
dropna(rows) == SelectSeq(rows, LAMBDA row : ~has_missing(row))

NoFrame == Frame(<<>>, <<FALSE, FALSE, FALSE>>)

NoneResult == [kind |-> "none", df |-> NoFrame, frequency |-> <<>>, filename |-> <<>>]

ParserError == [kind |-> "raise", df |-> NoFrame, frequency |-> <<>>, filename |-> <<>>]

process_txt_file(filename, data) ==
    LET lines    == [i \in 1..Len(data) |-> replace_commas(data[i])]
        filtered == SelectSeq(lines, enough_tokens)
    IN  IF filtered = <<>> THEN NoneResult
        ELSE IF read_csv_raises(filtered) THEN ParserError
        ELSE IF Len(filtered[1]) < 3 THEN NoneResult
        ELSE LET rows == [i \in 1..Len(filtered) |->
                            << read_cell(filtered[i], 1),
                               read_cell(filtered[i], 2),
                               read_cell(filtered[i], 3) >>]
                 obj  == << object_column(filtered, 1),
                            object_column(filtered, 2),
                            object_column(filtered, 3) >>
             IN  [kind |-> "table", df |-> Frame(dropna(rows), obj),
                  frequency |-> frequency_of(filename), filename |-> filename]

-----------------------------------------------------------------------------
(* run_cli_mode and NcvZcvApp *)

\* argparse's type=float and float(StringVar.get()): a numeral converts, any
\* other text (a decimal comma included) is a ValueError.
float_ok(t) == t.kind = "num"

Args(d, e, z) == [diameter |-> d, epsilon |-> e, interface |-> z]

GoodArgs == Args(Tok("num", FromInt(2)), Tok("num", FromInt(1)), Tok("num", FromInt(1)))

args_ok(a) == float_ok(a.diameter) /\ float_ok(a.epsilon) /\ float_ok(a.interface)

NoWorkbook == [written |-> FALSE, name |-> <<>>, sheets |-> <<>>]

NoPlot == [written |-> FALSE, name |-> <<>>]

\* The files of the run: args.files, or self.file_paths.
batch == IF mode = "cli" THEN picked ELSE file_paths

\* results[frequency] = (results_df, Ncv_f, Ncv_b)
put_first_wins(map, key, value) ==
    [x \in DOMAIN map \cup {key} |-> IF x \in DOMAIN map THEN map[x] ELSE value]

put(map, key, value) ==
    [x \in DOMAIN map \cup {key} |-> IF x = key THEN value ELSE map[x]]

\* len(sample_names) > 1
too_many_when_three(names) == Cardinality(names) > 2

too_many(names) == Cardinality(names) > 1

\* "if df is not None": an empty result is skipped.
skipped_never(r) == FALSE

skipped(r) == r.kind = "none"

\* results_df: what a sheet holds
results_df(p) == [V |-> p.V, Zf |-> p.Zf, Zb |-> p.Zb, Nf |-> p.Nf, Nb |-> p.Nb]

sheets_of(map) == [l \in DOMAIN map |-> results_df(map[l])]

\* The body of "for file_path in ...", for the file at position idx + 1.
loop_body ==
    LET k == idx + 1
        f == batch[k]
        r == process_txt_file(f.name, f.data)
        p == calculate_ncv_zcv(r.df, Area(argv.diameter.val), argv.epsilon.val)
    IN  /\ nread' = nread + 1
        /\ IF r.kind = "raise"
           THEN /\ pc' = "done" /\ outcome' = "exception"
                /\ UNCHANGED << idx, parsed, sample_names, results, origin >>
           ELSE IF skipped(r)
           THEN /\ idx' = k
                /\ UNCHANGED << pc, outcome, parsed, sample_names, results, origin >>
           ELSE /\ parsed' = parsed \cup {k}
                /\ sample_names' = sample_names \cup {extract_sample_name(f.name)}
                /\ IF r.kind = "table" /\ ~p.raised
                   THEN /\ results' = put(results, r.frequency, p)
                        /\ origin' = put(origin, r.frequency, k)
                        /\ idx' = k
                        /\ UNCHANGED << pc, outcome >>
                   ELSE /\ pc' = "done" /\ outcome' = "exception"
                        /\ UNCHANGED << idx, results, origin >>
        /\ UNCHANGED << mode, argv, picked, file_paths, selected, sample_name,
                        folder, workbook, plot, ptext, pout, ctab, cpar, cout >>

\* "if len(sample_names) > 1: ... return", else the choice of sample_name.
check_samples(next) ==
    /\ IF too_many(sample_names)
       THEN /\ pc' = "done" /\ outcome' = "mixed_sample_error"
            /\ UNCHANGED sample_name
       ELSE /\ pc' = next
            /\ sample_name' = IF sample_names = {} THEN Unknown
                              ELSE CHOOSE x \in sample_names : TRUE
            /\ UNCHANGED outcome
    /\ UNCHANGED << mode, argv, picked, file_paths, idx, nread, parsed, selected,
                    results, origin, sample_names, folder, workbook, plot,
                    ptext, pout, ctab, cpar, cout >>

\* parser.parse_args(): a parameter that is no float ends the run with the
\* usage error "invalid float value".
CliParseArgs ==
    /\ mode = "cli" /\ pc = "cli_start"
    /\ IF args_ok(argv)
       THEN pc' = "cli_loop" /\ UNCHANGED outcome
       ELSE pc' = "done" /\ outcome' = "invalid_parameter_error"
    /\ UNCHANGED << mode, argv, picked, file_paths, idx, nread, parsed, selected,
                    results, origin, sample_names, sample_name, folder, workbook,
                    plot, ptext, pout, ctab, cpar, cout >>

CliProcessFile ==
    /\ mode = "cli" /\ pc = "cli_loop" /\ idx < Len(picked)
    /\ loop_body

CliCheckSamples ==
    /\ mode = "cli" /\ pc = "cli_loop" /\ idx = Len(picked)
    /\ check_samples("cli_excel")

\* os.makedirs(output_folder) and the ExcelWriter block; xlsxwriter writes a
\* workbook (with one blank sheet) also when no sheet was added.
CliSaveExcel ==
    /\ mode = "cli" /\ pc = "cli_excel"
    /\ folder' = folder \cup {sample_name}
    /\ workbook' = [written |-> TRUE, name |-> sample_name, sheets |-> sheets_of(results)]
    /\ pc' = "cli_plot"
    /\ UNCHANGED << mode, argv, picked, file_paths, idx, nread, parsed, selected,
                    results, origin, sample_names, sample_name, outcome, plot,
                    ptext, pout, ctab, cpar, cout >>

\* plt.subplots(len(results), 2) raises ValueError for zero rows and returns
\* a one-dimensional axes array for one row, on which axes[i, 0] raises
\* IndexError; otherwise the figure is saved.
CliPlot ==
    /\ mode = "cli" /\ pc = "cli_plot"
    /\ pc' = "done"
    /\ IF Cardinality(DOMAIN results) < 2
       THEN outcome' = "exception" /\ UNCHANGED plot
       ELSE outcome' = "ok" /\ plot' = [written |-> TRUE, name |-> sample_name]
    /\ UNCHANGED << mode, argv, picked, file_paths, idx, nread, parsed, selected,
                    results, origin, sample_names, sample_name, folder, workbook,
                    ptext, pout, ctab, cpar, cout >>

\* NcvZcvApp.select_files: the dialog returns `picked`.
GuiSelectFiles ==
    /\ mode = "gui" /\ pc = "form" /\ selected = "none"
    /\ LET names == { extract_sample_name(picked[i].name) : i \in 1..Len(picked) }
       IN  IF Cardinality(names) # 1
           THEN file_paths' = <<>> /\ selected' = "rejected"
           ELSE file_paths' = picked /\ selected' = "accepted"
    /\ UNCHANGED << mode, argv, picked, pc, idx, nread, parsed, results, origin,
                    sample_names, sample_name, outcome, folder, workbook, plot,
                    ptext, pout, ctab, cpar, cout >>

\* NcvZcvApp.process_data up to the loop.
GuiProcessData ==
    /\ mode = "gui" /\ pc = "form"
    /\ IF file_paths = <<>>
       THEN pc' = "done" /\ outcome' = "no_files_error" /\ UNCHANGED results
       ELSE IF ~args_ok(argv)
       THEN pc' = "done" /\ outcome' = "invalid_parameter_error" /\ UNCHANGED results
       ELSE pc' = "gui_loop" /\ results' = <<>> /\ UNCHANGED outcome
    /\ UNCHANGED << mode, argv, picked, file_paths, idx, nread, parsed, selected,
                    origin, sample_names, sample_name, folder, workbook, plot,
                    ptext, pout, ctab, cpar, cout >>

GuiProcessFile ==
    /\ mode = "gui" /\ pc = "gui_loop" /\ idx < Len(file_paths)
    /\ loop_body

GuiCheckSamples ==
    /\ mode = "gui" /\ pc = "gui_loop" /\ idx = Len(file_paths)
    /\ check_samples("gui_plot")

\* NcvZcvApp.plot_results up to the call of save_to_excel.
GuiPlotResults ==
    /\ mode = "gui" /\ pc = "gui_plot"
    /\ IF Cardinality(DOMAIN results) = 0
       THEN /\ pc' = "done" /\ outcome' = "exception"
            /\ UNCHANGED << folder, plot >>
       ELSE /\ pc' = "gui_excel"
            /\ folder' = folder \cup {sample_name}
            /\ plot' = [written |-> TRUE, name |-> sample_name]
            /\ UNCHANGED outcome
    /\ UNCHANGED << mode, argv, picked, file_paths, idx, nread, parsed, selected,
                    results, origin, sample_names, sample_name, workbook,
                    ptext, pout, ctab, cpar, cout >>

\* NcvZcvApp.save_to_excel
GuiSaveToExcel ==
    /\ mode = "gui" /\ pc = "gui_excel"
    /\ workbook' = [written |-> TRUE, name |-> sample_name, sheets |-> sheets_of(results)]
    /\ pc' = "done" /\ outcome' = "ok"
    /\ UNCHANGED << mode, argv, picked, file_paths, idx, nread, parsed, selected,
                    results, origin, sample_names, sample_name, folder, plot,
                    ptext, pout, ctab, cpar, cout >>

-----------------------------------------------------------------------------
(* The batch drivers: every list of up to MaxFiles files. *)

MaxFiles == 3

NameA1 == << "C(V)_0_", "A", "_", "1", "kHz", ".txt" >>
NameA2 == << "C(V)_0_", "A", "_", "2", "kHz", ".txt" >>
NameB1 == << "C(V)_0_", "B", "_", "1", "kHz", ".txt" >>
NameU  == << "notes", ".txt" >>

Line3(v, cf, cb) ==
    << Tok("num", FromInt(v)), Tok("num", FromInt(cf)), Tok("num", FromInt(cb)) >>

Header == << Tok("text", NaN), Tok("text", NaN) >>

DataHeaderOnly == << Header >>
DataFalling == << Header, Line3(0, 2, 2), Line3(1, 1, 1) >>
DataRising == << Header, Line3(0, 1, 1), Line3(1, 2, 2) >>
DataOneRow == << Header, Line3(0, 1, 1) >>

FileData == { DataHeaderOnly, DataFalling, DataRising, DataOneRow }

File(n, d) == [name |-> n, data |-> d]

Files ==
    { File(NameA1, d) : d \in FileData } \cup
    { File(NameA2, DataFalling), File(NameB1, DataFalling), File(NameU, DataRising) }

FileLists(lo) == UNION { [1..n -> Files] : n \in lo..MaxFiles }

TextArg == Tok("text", NaN)
NumArg(i) == Tok("num", FromInt(i))

ArgChoices ==
    { GoodArgs,
      Args(TextArg, NumArg(1), NumArg(1)),
      Args(NumArg(2), NumArg(1), TextArg),
      Args(NumArg(0), NumArg(1), NumArg(1)),
      Args(NumArg(2), NumArg(-1), NumArg(0)) }

Init ==
    /\ mode \in {"cli", "gui"}
    /\ argv \in ArgChoices
    \* --files takes one or more paths; the dialog may return none
    /\ picked \in FileLists(IF mode = "cli" THEN 1 ELSE 0)
    /\ file_paths = <<>>
    /\ pc = IF mode = "cli" THEN "cli_start" ELSE "form"
    /\ idx = 0 /\ nread = 0 /\ parsed = {} /\ selected = "none"
    /\ results = <<>> /\ origin = <<>>
    /\ sample_names = {} /\ sample_name = <<>> /\ outcome = "" /\ folder = {}
    /\ workbook = NoWorkbook /\ plot = NoPlot
    /\ ptext = <<>> /\ pout = [done |-> FALSE, r |-> NoneResult]
    /\ ctab = <<>> /\ cpar = [diameter |-> 1, epsilon |-> 1] /\ cout = NoCalc

Next ==
    \/ CliParseArgs
    \/ CliProcessFile
    \/ CliCheckSamples
    \/ CliSaveExcel
    \/ CliPlot
    \/ GuiSelectFiles
    \/ GuiProcessData
    \/ GuiProcessFile
    \/ GuiCheckSamples
    \/ GuiPlotResults
    \/ GuiSaveToExcel

Spec == Init /\ [][Next]_vars

-----------------------------------------------------------------------------
(* Properties of the batch drivers (checked under Spec) *)

FileResult(files, i) == process_txt_file(files[i].name, files[i].data)

ProfileOf(files, i) ==
    calculate_ncv_zcv(FileResult(files, i).df, Area(argv.diameter.val), argv.epsilon.val)

\* The file yields the empty result.
EmptyFile(files, i) == FileResult(files, i).kind = "none"

\* The file yields a table and a Profile.
Usable(files, i) == FileResult(files, i).kind = "table" /\ ~ProfileOf(files, i).raised

Label(files, i) == frequency_of(files[i].name)

SampleOf(files, i) == extract_sample_name(files[i].name)

NoArtifact == folder = {} /\ ~workbook.written /\ ~plot.written

\* Two files that process_txt_file returned a table for differ in sample name.
MixedSeen == \E i, j \in parsed : SampleOf(batch, i) # SampleOf(batch, j)

ValidArgs ==
    /\ mode # "off" /\ args_ok(argv)
    /\ argv.diameter.val.n > 0 /\ argv.epsilon.val.n > 0 /\ argv.interface.val.n > 0

\* C2 (as claimed): when the parameters are valid and every file of a
\* non-empty batch yields the empty result, no folder, workbook or plot is
\* created and the run ends in the no-valid-data error.
C2_NoValidDataError ==
    (ValidArgs /\ Len(batch) > 0 /\ \A i \in 1..Len(batch) : EmptyFile(batch, i)) =>
        /\ NoArtifact
        /\ pc = "done" => outcome = "no_valid_data_error"

\* The usable files up to position n that carry label l.
UsableWith(l, n) == { i \in 1..n : Usable(batch, i) /\ Label(batch, i) = l }

Max(S) == CHOOSE m \in S : \A x \in S : x <= m

\* The files consumed so far have left in the mapping what C3 says: an
\* empty-result file nothing, a usable file its Profile under its label
\* (`always`), or its Profile unless a later usable file carries the label.
SkipLeaves(always) ==
    \A k \in 1..idx :
        EmptyFile(batch, k) =>
            /\ k \notin parsed
            /\ \A l \in DOMAIN origin : origin[l] # k
            /\ sample_names = { SampleOf(batch, i) : i \in parsed }
            /\ \A j \in (1..idx) \ {k} :
                  Usable(batch, j) =>
                     /\ Label(batch, j) \in DOMAIN results
                     /\ (always \/ j = Max(UsableWith(Label(batch, j), idx)))
                           => results[Label(batch, j)] = ProfileOf(batch, j)

\* The loop is never left at an empty-result file: a file that was read and
\* not consumed is not an empty-result file, and a run that is past the loop
\* with every read file consumed has consumed the whole list.
SkipGoesOn ==
    /\ nread \in {idx, idx + 1}
    /\ nread = idx + 1 => ~EmptyFile(batch, idx + 1)
    /\ (nread = idx /\ pc \notin {"off", "form", "cli_start", "cli_loop", "gui_loop"}
          /\ outcome \notin {"invalid_parameter_error", "no_files_error"})
          => idx = Len(batch)

NonPositive(t) == t.kind = "num" /\ t.val.n <= 0

BadArg(t) == ~float_ok(t) \/ NonPositive(t)

\* C4 (as claimed): with a non-numeric or non-positive diameter, permittivity
\* or interface depth, no file is read, nothing is written, and the run ends
\* in the invalid-parameter error (here even allowing the form to answer
\* "No files selected" first).
C4_InvalidParameterFirst ==
    (mode # "off" /\ (BadArg(argv.diameter) \/ BadArg(argv.epsilon) \/ BadArg(argv.interface))) =>
        /\ nread = 0
        /\ NoArtifact
        /\ (pc = "done" /\ outcome # "no_files_error") => outcome = "invalid_parameter_error"

\* The sample names other than "Unknown" among the usable files picked.
RealSamples ==
    { SampleOf(picked, i) : i \in { j \in 1..Len(picked) : Usable(picked, j) } } \ { Unknown }

\* C7 (as claimed): a batch whose usable files carry exactly one sample name
\* other than "Unknown" (and any number of "Unknown" ones) is not rejected as
\* mixed, neither by the run nor by the file selection.
C7_UnknownNotCounted ==
    (ValidArgs /\ Cardinality(RealSamples) = 1
        /\ \A i \in 1..Len(picked) : Usable(picked, i)) =>
        /\ outcome # "mixed_sample_error"
        /\ selected # "rejected"

\* C8: at every point of a run the mapping holds one entry per label of the
\* usable files consumed so far, each the Profile of the last of them with
\* that label, and the sheets of a written workbook are those entries.
C8_LastWriteWins ==
    /\ DOMAIN results = { Label(batch, i) : i \in { j \in 1..idx : Usable(batch, j) } }
    /\ \A l \in DOMAIN results :
          /\ results[l] = ProfileOf(batch, Max(UsableWith(l, idx)))
          /\ origin[l] = Max(UsableWith(l, idx))
    /\ workbook.written =>
          /\ idx = Len(batch)
          /\ workbook.sheets = sheets_of(results)
          /\ \A l \in DOMAIN workbook.sheets :
                workbook.sheets[l] = results_df(ProfileOf(batch, Max(UsableWith(l, idx))))

\* Witness of C8: a finished run in which a later file overwrote the
\* different Profile of an earlier file with the same label, and the
\* workbook holds the later one.
C8_Witness ==
    /\ pc = "done" /\ outcome = "ok" /\ workbook.written
    /\ \E i, j \in 1..idx :
          /\ i < j /\ Usable(batch, i) /\ Usable(batch, j)
          /\ Label(batch, i) = Label(batch, j)
          /\ ProfileOf(batch, i) # ProfileOf(batch, j)
          /\ results[Label(batch, j)] = ProfileOf(batch, j)
          /\ workbook.sheets[Label(batch, j)] = results_df(ProfileOf(batch, j))

-----------------------------------------------------------------------------
(* The calculator on its own: every table of up to MaxRows rows. *)

MaxRows == 3
Volts == {0, 1}
Caps == {0, 1, 2}
Diameters == {1, 2}
Epsilons == {1, 2}

RowSet == { << Num(FromInt(v)), Num(FromInt(cf)), Num(FromInt(cb)) >> :
               v \in Volts, cf \in Caps, cb \in Caps }

Tables == UNION { [1..n -> RowSet] : n \in 0..MaxRows }

Idle ==
    /\ mode = "off" /\ argv = GoodArgs /\ picked = <<>> /\ file_paths = <<>>
    /\ pc = "off" /\ idx = 0 /\ nread = 0 /\ parsed = {} /\ selected = "none"
    /\ results = <<>> /\ origin = <<>>
    /\ sample_names = {} /\ sample_name = <<>> /\ outcome = "" /\ folder = {}
    /\ workbook = NoWorkbook /\ plot = NoPlot

InitCalc ==
    /\ Idle
    /\ ptext = <<>> /\ pout = [done |-> FALSE, r |-> NoneResult]
    /\ ctab \in Tables
    /\ cpar \in { [diameter |-> d, epsilon |-> e] : d \in Diameters, e \in Epsilons }
    /\ cout = NoCalc

Calculate ==
    /\ ~cout.done
    /\ cout' = [done |-> TRUE,
                p |-> calculate_ncv_zcv(Frame(ctab, <<FALSE, FALSE, FALSE>>),
                                        Area(FromInt(cpar.diameter)),
                                        FromInt(cpar.epsilon))]
    /\ UNCHANGED << drivervars, ptext, pout, ctab, cpar >>

NextCalc == Calculate

SpecCalc == InitCalc /\ [][NextCalc]_vars

-----------------------------------------------------------------------------
(* Properties of calculate_ncv_zcv (checked under SpecCalc) *)

CalcDone == cout.done /\ ~cout.p.raised

Rows == 1..Len(ctab)

CapF(i) == ctab[i][2].val
CapB(i) == ctab[i][3].val
Volt(i) == ctab[i][1].val

GradV == np_gradient(Column(Frame(ctab, <<FALSE, FALSE, FALSE>>), 1))
GradCf == np_gradient(Column(Frame(ctab, <<FALSE, FALSE, FALSE>>), 2))

NonNegative(x) == x.k # "nan" /\ x.n >= 0

NoZeroCap == \A i \in Rows : ~IsZero(CapF(i)) /\ ~IsZero(CapB(i))

\* C5 (as claimed): for every table (here even restricted to tables without a
\* zero capacitance) and positive area and permittivity, both sheet-density
\* scalars returned by calculate_ncv_zcv are non-negative.
C5_ScalarsNonNegative ==
    (CalcDone /\ NoZeroCap) => (NonNegative(cout.p.If) /\ NonNegative(cout.p.Ib))

\* C6 (as claimed): every depth value, every density value and both
\* sheet-density scalars returned by calculate_ncv_zcv are finite, also for a
\* table with a zero capacitance or a zero capacitance delta.
C6_OutputsFinite ==
    CalcDone =>
        /\ \A i \in Rows : /\ IsFinite(cout.p.Zf[i]) /\ IsFinite(cout.p.Zb[i])
                           /\ IsFinite(cout.p.Nf[i]) /\ IsFinite(cout.p.Nb[i])
        /\ IsFinite(cout.p.If) /\ IsFinite(cout.p.Ib)

\* The sweep of C10: the forward capacitance is constant across one step
\* while the voltage changes across that step.
ConstantStep ==
    \E i \in Rows : /\ i + 1 \in Rows
                    /\ CapF(i) = CapF(i + 1)
                    /\ Volt(i) # Volt(i + 1)

\* The indices at which dV/dC divides by a zero capacitance gradient while
\* the voltage gradient is not zero.
Degenerate(i) == IsZero(GradCf[i]) /\ ~IsZero(GradV[i])

ProfileHasNoNaN ==
    \A i \in Rows : /\ ~IsNaN(cout.p.Zf[i]) /\ ~IsNaN(cout.p.Zb[i])
                    /\ ~IsNaN(cout.p.Nf[i]) /\ ~IsNaN(cout.p.Nb[i])

-----------------------------------------------------------------------------
(* The parser on its own: every file of up to MaxLines lines. *)

MaxLines == 3

N1 == Tok("num", FromInt(1))
N2 == Tok("num", FromInt(2))
NC == Tok("numcomma", Fin(3, 2))
NA == Tok("na", NaN)
TX == Tok("text", NaN)

SampleLines ==
    { <<>>,                    \* a blank line
      << TX, TX >>,            \* a two-word header
      << N1, N2 >>,            \* two columns only
      << N1, N2, N1 >>,
      << N2, N1, N1 >>,
      << NC, N1, N2 >>,        \* a decimal comma
      << N1, NA, N2 >>,        \* a missing value
      << TX, N1, N2 >>,        \* text in a kept column
      << TX, TX, TX >>,        \* a three-word header
      << N1, N2, N1, N2 >>,    \* a fourth column
      << N2, N2, N1, TX >> }   \* text in a column that is not kept

Contents == UNION { [1..n -> SampleLines] : n \in 0..MaxLines }

ParsedName == << "C(V)_0_", "A", "_", "1", "kHz", ".txt" >>

InitParse ==
    /\ Idle
    /\ ptext \in Contents
    /\ pout = [done |-> FALSE, r |-> NoneResult]
    /\ ctab = <<>> /\ cpar = [diameter |-> 1, epsilon |-> 1] /\ cout = NoCalc

Parse ==
    /\ ~pout.done
    /\ pout' = [done |-> TRUE, r |-> process_txt_file(ParsedName, ptext)]
    /\ UNCHANGED << drivervars, ptext, ctab, cpar, cout >>

NextParse == Parse

SpecParse == InitParse /\ [][NextParse]_vars

-----------------------------------------------------------------------------
(* Properties of process_txt_file (checked under SpecParse) *)

\* The retained lines of the file, in file order.
Retained == SelectSeq(ptext, enough_tokens)

NumericToken(t) == t.kind \in {"num", "numcomma"}

AllNumeric(line) == \A c \in 1..3 : NumericToken(line[c])

ExpectedRows ==
    LET keep == SelectSeq(Retained, AllNumeric)
    IN  [i \in 1..Len(keep) |->
            << Num(keep[i][1].val), Num(keep[i][2].val), Num(keep[i][3].val) >>]

\* C9 (as claimed): a returned table holds only rows whose three kept fields
\* are numeric: every retained line with a non-numeric or missing value in
\* its first three columns is dropped, and the other rows keep file order.
C9_OnlyNumericRows ==
    (pout.done /\ pout.r.kind = "table") =>
        /\ \A i \in 1..Len(pout.r.df.rows) :
              \A c \in 1..3 : pout.r.df.rows[i][c].kind = "num"
        /\ pout.r.df.rows = ExpectedRows

====
